---- MODULE Spec2Model ----
(***************************************************************************)
(* Model of scripts/find-cooklang-repos.py: the GitHubSearcher pagination  *)
(* loop, the FeedManager (load / is_feed_exists / add_feed / save_config   *)
(* over a line-level model of feeds.yaml) and main().                      *)
(*                                                                         *)
(* Text values are sequences of chunks (strings).  Two chunks are special  *)
(* characters: QUOTE (a double quote) and BSL (a backslash).  Values that   *)
(* are not text are one-chunk markers: None, PyTrue, PyFalse.  A dict is a  *)
(* record whose domain holds exactly the keys present.                     *)
(***************************************************************************)
EXTENDS Integers, Sequences, FiniteSets, TLC

VARIABLES
    \* ---- main()
    pc,            \* position in main(), or "api" when the classes are driven directly
    args,          \* parsed command line
    configExists,  \* config_path.exists()
    exitCode,      \* process exit status, NoExit while running
    terminal,      \* how main() ended: "none" while running
    candidates,    \* main's local `repos`
    idx,           \* position of the `for repo in repos` loop
    added_count,   \* main's local added_count
    addCalls,      \* history: each add_feed call (its record, what it returned)
    existsCalls,   \* history: number of dry-run is_feed_exists calls
    \* ---- GitHubSearcher.search_repos_with_cook_files
    spc,           \* "idle" | "loop" | "returned"
    max_repos, max_pages,
    page,          \* loop variable `page`
    repos,         \* the dict `repos`, in insertion order
    requests,      \* history: outcome of each page request ("ok" | "empty" | "fail")
    seen,          \* history: every item of every page received, in order
                   \* (kept when the Searcher is driven directly)
    reposAfter,    \* history: the dict after each page request
    \* ---- FeedManager and the file
    file,          \* lines of config/feeds.yaml
    config,        \* self.config as loaded by yaml.safe_load
    header_lines, footer_lines,
    fmState,       \* "none" | "ready" | "parse_error" | "type_error"
    writes,        \* history: number of save_config calls that wrote the file
    lastAdd,       \* history: the last add_feed call and what it did
    snap           \* history: the document at the last load and since

vars == <<pc, args, configExists, exitCode, terminal, candidates, idx, added_count, addCalls,
          existsCalls, spc, max_repos, max_pages, page, repos, requests, seen,
          reposAfter, file, config, header_lines, footer_lines, fmState, writes,
          lastAdd, snap>>

mainVars == <<pc, args, configExists, exitCode, terminal, candidates, idx, added_count,
              addCalls, existsCalls>>
searchVars == <<spc, max_repos, max_pages, page, repos, requests, seen, reposAfter>>
storeVars == <<file, config, header_lines, footer_lines, fmState, writes, lastAdd, snap>>

----------------------------------------------------------------------------
(* Bounds of the model *)
MaxPages == 2       \* --max-pages / max_pages ranges over 0..MaxPages
MaxLimit == 2       \* --limit ranges over 0..MaxLimit
MaxRepos == 2       \* max_repos ranges over 0..MaxRepos when the Searcher is called directly
MaxAdds == 2        \* add_feed calls per FeedManager when driven directly
MaxSaves == 2       \* save_config calls when driven directly

(* Program constants *)
FetchFactor == 5    \* max_repos_to_fetch = args.limit * 5
NoExit == 0 - 1     \* the process has not exited

----------------------------------------------------------------------------
(* Values *)
QUOTE == "\""
BSL == "\\"
None == <<"%None">>
PyTrue == <<"%True">>
PyFalse == <<"%False">>
EmptyDict == [k \in {} |-> None]

\* dict.get(key, default)
Get(d, key, default) == IF key \in DOMAIN d THEN d[key] ELSE default

\* Python truthiness of a text-or-None value
Truthy(v) == v # None /\ v # PyFalse /\ v # <<>>

\* `a or b`
PyOr(a, b) == IF Truthy(a) THEN a ELSE b

Range(s) == {s[i] : i \in 1..Len(s)}
Min(a, b) == IF a < b THEN a ELSE b
Take(s, n) == SubSeq(s, 1, Min(n, Len(s)))

----------------------------------------------------------------------------
(* The search API: what a page of results can hold *)

RepoR1 == [full_name |-> <<"r1">>, html_url |-> <<"u1">>, description |-> <<"d1">>,
           default_branch |-> <<"main">>, stargazers_count |-> 3, language |-> <<"py">>]
\* the same repository again, matched by another file, with other data
RepoR1Later == [full_name |-> <<"r1">>, html_url |-> <<"u1">>, description |-> None,
                default_branch |-> <<"main">>, stargazers_count |-> 5, language |-> None]
RepoR2 == [full_name |-> <<"r2">>, html_url |-> <<"u2">>, description |-> <<>>,
           default_branch |-> <<"dev">>, stargazers_count |-> 5]
\* another repository reported under the url of r1, optional keys missing
RepoR3 == [full_name |-> <<"r3">>, html_url |-> <<"u1">>, stargazers_count |-> 2]

SearchItems == { [name |-> <<"a.cook">>, repository |-> RepoR1],
                 [name |-> <<"b.cook">>, repository |-> RepoR1Later],
                 [name |-> <<"a.cook">>, repository |-> RepoR2],
                 [name |-> <<"a.cook">>, repository |-> RepoR3],
                 [name |-> <<"a.cook">>] }

\* results.get("items", []) of a successful response: up to two items
ResultPages == UNION {[1..n -> SearchItems] : n \in {0, 1, 2}}

----------------------------------------------------------------------------
(* GitHubSearcher.search_repos_with_cook_files *)

HasRepo(d, full_name) == \E i \in 1..Len(d) : d[i].full_name = full_name

\* the record built at lines 130-137
RepoRecord(repo) ==
    [url |-> Get(repo, "html_url", None),
     full_name |-> repo.full_name,
     description |-> Get(repo, "description", <<>>),
     default_branch |-> Get(repo, "default_branch", <<"main">>),
     stars |-> Get(repo, "stargazers_count", 0),
     language |-> Get(repo, "language", <<>>)]

\* faulty variant: no membership test
IsNewRepoNoDedup(d, item) ==
    LET repo == Get(item, "repository", EmptyDict)
    IN  Truthy(Get(repo, "full_name", None))

\* `if repo_full_name and repo_full_name not in repos`
IsNewRepo(d, item) ==
    LET repo == Get(item, "repository", EmptyDict)
        repo_full_name == Get(repo, "full_name", None)
    IN  Truthy(repo_full_name) /\ ~HasRepo(d, repo_full_name)

\* the `for item in items` loop, with its break once max_repos is reached
RECURSIVE ExtractRepos(_, _, _)
ExtractRepos(d, items, maxr) ==
    IF items = <<>> THEN d
    ELSE IF IsNewRepo(d, Head(items))
         THEN LET d2 == Append(d, RepoRecord(Head(items).repository))
              IN  IF Len(d2) >= maxr THEN d2 ELSE ExtractRepos(d2, Tail(items), maxr)
         ELSE ExtractRepos(d, Tail(items), maxr)

\* faulty variant: the page limit alone
LoopCondPagesOnly(p, n, maxr, maxp) == p <= maxp

\* `while page <= max_pages and len(repos) < max_repos`
LoopCond(p, n, maxr, maxp) == p <= maxp /\ n < maxr

\* entering the method: lines 101-105
SearchEnter(maxr, maxp) ==
    /\ max_repos' = maxr
    /\ max_pages' = maxp
    /\ page' = 1
    /\ repos' = <<>>
    /\ requests' = <<>>
    /\ seen' = <<>>
    /\ reposAfter' = <<>>
    /\ spc' = IF LoopCond(1, 0, maxr, maxp) THEN "loop" ELSE "returned"

\* faulty variant: a failed request discards what was gathered
ReposOnFailureCleared(d) == <<>>

\* what the dict holds when the except clause breaks out of the loop
ReposOnFailure(d) == d

\* one iteration whose request raises: lines 108-112
PageFail ==
    /\ spc = "loop"
    /\ requests' = Append(requests, "fail")
    /\ repos' = ReposOnFailure(repos)
    /\ reposAfter' = Append(reposAfter, repos')
    /\ spc' = "returned"
    /\ UNCHANGED <<max_repos, max_pages, page, seen>>

\* one iteration whose response has no items: lines 121-123
PageEmpty ==
    /\ spc = "loop"
    /\ requests' = Append(requests, "empty")
    /\ reposAfter' = Append(reposAfter, repos)
    /\ spc' = "returned"
    /\ UNCHANGED <<max_repos, max_pages, page, repos, seen>>

\* one iteration whose response has items: lines 126-147, then the loop test
PageItems ==
    /\ spc = "loop"
    /\ \E items \in ResultPages \ {<<>>} :
        LET d2 == ExtractRepos(repos, items, max_repos)
        IN  /\ repos' = d2
            /\ seen' = IF pc = "api" THEN seen \o items ELSE seen
            /\ requests' = Append(requests, "ok")
            /\ reposAfter' = Append(reposAfter, d2)
            /\ page' = page + 1
            /\ spc' = IF LoopCond(page + 1, Len(d2), max_repos, max_pages)
                      THEN "loop" ELSE "returned"
    /\ UNCHANGED <<max_repos, max_pages>>

----------------------------------------------------------------------------
(* config/feeds.yaml as lines.  A line is a record:                        *)
(*   k    : "comment" | "blank" | "version" | "feeds" | "first" | "field"  *)
(*          | "tag" | "valcomment" | "validation" | "other"                *)
(*   name : the key of a "first" (`  - key: value`) or "field" line        *)
(*   q    : the value is written between double quotes                     *)
(*   v    : the text of the value (for a quoted value, the raw characters  *)
(*          between the quotes)                                            *)
(*   ws   : the line carries trailing whitespace                           *)

Ln(k, name, q, v) == [k |-> k, name |-> name, q |-> q, v |-> v, ws |-> FALSE]
Comment(text) == Ln("comment", "", FALSE, <<text>>)
Blank == Ln("blank", "", FALSE, <<>>)
VersionLine(v) == Ln("version", "", FALSE, v)
FeedsLine == Ln("feeds", "", FALSE, <<>>)
FirstField(name, q, v) == Ln("first", name, q, v)
Field(name, q, v) == Ln("field", name, q, v)
TagLine(t) == Ln("tag", "", FALSE, <<t>>)
ValComment == Ln("valcomment", "", FALSE, <<"# Validation configuration">>)
ValidationLine == Ln("validation", "", FALSE, <<>>)
Other(text) == Ln("other", "", FALSE, <<text>>)
WithWs(l) == [l EXCEPT !.ws = TRUE]

\* line.rstrip()
RStrip(l) == [l EXCEPT !.ws = FALSE]

\* line.strip().startswith('#') or not line.strip()
IsCommentOrBlank(l) == l.k \in {"comment", "valcomment", "blank"}

\* the leading lines _extract_header walks before it breaks
RECURSIVE HeaderRegion(_)
HeaderRegion(lines) ==
    IF lines = <<>> \/ ~IsCommentOrBlank(Head(lines)) THEN <<>>
    ELSE <<Head(lines)>> \o HeaderRegion(Tail(lines))

\* the lines from the first validation marker to the end of the file
RECURSIVE FooterRegion(_)
FooterRegion(lines) ==
    IF lines = <<>> THEN <<>>
    ELSE IF Head(lines).k \in {"valcomment", "validation"} THEN lines
    ELSE FooterRegion(Tail(lines))

MapRStrip(lines) == [i \in 1..Len(lines) |-> RStrip(lines[i])]

\* FeedManager._extract_header
ExtractHeader(lines) == MapRStrip(HeaderRegion(lines))

\* FeedManager._extract_footer
ExtractFooter(lines) == MapRStrip(FooterRegion(lines))

----------------------------------------------------------------------------
(* yaml.safe_load on the lines *)

ParseFail == [ok |-> FALSE, v |-> <<>>]

\* a double-quoted scalar: the raw characters between the quotes
RECURSIVE ParseDQ(_)
ParseDQ(body) ==
    IF body = <<>> THEN [ok |-> TRUE, v |-> <<>>]
    ELSE IF Head(body) = QUOTE THEN ParseFail        \* the scalar ends, text follows it
    ELSE IF Head(body) = BSL
         THEN IF Len(body) = 1 THEN ParseFail         \* the closing quote is escaped
              ELSE LET c == body[2]
                       rest == ParseDQ(SubSeq(body, 3, Len(body)))
                   IN  IF c \notin {QUOTE, BSL, "n"} THEN ParseFail   \* unknown escape
                       ELSE IF ~rest.ok THEN ParseFail
                       ELSE [ok |-> TRUE,
                             v |-> <<IF c = "n" THEN "%LF" ELSE c>> \o rest.v]
    ELSE LET rest == ParseDQ(Tail(body))
         IN  IF ~rest.ok THEN ParseFail
             ELSE [ok |-> TRUE, v |-> <<Head(body)>> \o rest.v]

\* a plain scalar
ParsePlain(v) ==
    IF v \in {<<>>, <<"null">>, <<"~">>} THEN None
    ELSE IF v \in {<<"true">>, <<"True">>, <<"yes">>, <<"on">>} THEN PyTrue
    ELSE IF v \in {<<"false">>, <<"False">>, <<"no">>, <<"off">>} THEN PyFalse
    ELSE v

ParseScalar(l) == IF l.q THEN ParseDQ(l.v) ELSE [ok |-> TRUE, v |-> ParsePlain(l.v)]

\* the block sequence under `feeds:`; cur holds the entry being read, if any
RECURSIVE ParseItems(_, _, _)
ParseItems(lines, done, cur) ==
    IF lines = <<>> THEN [ok |-> TRUE, feeds |-> done \o cur]
    ELSE LET l == Head(lines)
             rest == Tail(lines)
             bad == [ok |-> FALSE, feeds |-> <<>>]
         IN  CASE l.k \in {"comment", "valcomment", "blank"} -> ParseItems(rest, done, cur)
               [] l.k = "first" ->
                    LET s == ParseScalar(l)
                    IN  IF ~s.ok THEN bad
                        ELSE ParseItems(rest, done \o cur, <<(l.name :> s.v)>>)
               [] l.k = "field" ->
                    LET s == ParseScalar(l)
                    IN  IF ~s.ok \/ cur = <<>> THEN bad
                        ELSE ParseItems(rest, done, <<(l.name :> s.v) @@ cur[1]>>)
               [] l.k = "tag" ->
                    IF cur = <<>> THEN bad
                    ELSE LET old == Get(cur[1], "tags", None)
                             new == IF old = None THEN l.v ELSE old \o l.v
                         IN  ParseItems(rest, done, <<("tags" :> new) @@ cur[1]>>)
               [] OTHER -> [ok |-> TRUE, feeds |-> done \o cur]

FirstIndex(lines, kind) ==
    IF \E i \in 1..Len(lines) : lines[i].k = kind
    THEN CHOOSE i \in 1..Len(lines) :
            lines[i].k = kind /\ \A j \in 1..(i - 1) : lines[j].k # kind
    ELSE 0

Missing == <<"%missing">>

\* FeedManager._load_config.  The loaded dict is held as
\*   version   : the value of `version`, Missing when the key is absent
\*   feedsKind : "absent" (no `feeds` key) | "none" (`feeds:` with nothing
\*               under it loads as None) | "list"
\*   feeds     : the list
LoadConfig(lines) ==
    LET iv == FirstIndex(lines, "version")
        ifd == FirstIndex(lines, "feeds")
        items == IF ifd = 0 THEN [ok |-> TRUE, feeds |-> <<>>]
                 ELSE ParseItems(SubSeq(lines, ifd + 1, Len(lines)), <<>>, <<>>)
    IN  [ok |-> items.ok,
         config |-> [version |-> IF iv = 0 THEN Missing ELSE ParsePlain(lines[iv].v),
                     feedsKind |-> IF ifd = 0 THEN "absent"
                                   ELSE IF items.feeds = <<>> THEN "none" ELSE "list",
                     feeds |-> items.feeds]]

----------------------------------------------------------------------------
(* FeedManager *)

\* FeedManager._escape_yaml_string: s.replace('"', '\\"')
RECURSIVE EscapeYamlString(_)
EscapeYamlString(s) ==
    IF s = None \/ s = <<>> THEN <<>>
    ELSE (IF Head(s) = QUOTE THEN <<BSL, QUOTE>> ELSE <<Head(s)>>)
         \o EscapeYamlString(Tail(s))

\* str(x) inside an f-string
PyStr(v) == CASE v = None -> <<"None">>
              [] v = PyTrue -> <<"True">>
              [] v = PyFalse -> <<"False">>
              [] OTHER -> v

\* str.lower() (the chunks of the model are lower case but for these)
Lower(v) == CASE v = <<"None">> -> <<"none">>
              [] v = <<"True">> -> <<"true">>
              [] v = <<"False">> -> <<"false">>
              [] OTHER -> v

\* lines 223-238, up to and including `tags:`; the tag loop follows
FeedLinesHead(feed) ==
    <<FirstField("url", TRUE, EscapeYamlString(Get(feed, "url", None))),
      Field("title", TRUE, EscapeYamlString(Get(feed, "title", None))),
      Field("feed_type", FALSE, PyStr(Get(feed, "feed_type", None)))>>
    \o (IF Truthy(Get(feed, "branch", None))
        THEN <<Field("branch", TRUE, feed.branch)>> ELSE <<>>)
    \o <<Field("enabled", FALSE, Lower(PyStr(Get(feed, "enabled", PyTrue)))),
         Field("tags", FALSE, <<>>)>>

FeedLinesTail(feed) ==
    LET tags == Get(feed, "tags", <<>>)
    IN  [i \in 1..Len(tags) |-> TagLine(tags[i])]
        \o <<Field("notes", TRUE, EscapeYamlString(Get(feed, "notes", None))),
             Field("added_by", TRUE, EscapeYamlString(Get(feed, "added_by", None))),
             Field("added_at", TRUE, EscapeYamlString(Get(feed, "added_at", None)))>>

\* `for tag in feed.get("tags", [])` raises TypeError when the key holds None
TagsIterable(feed) == Get(feed, "tags", <<>>) # None

\* the `for i, feed in enumerate(feeds)` loop from entry i on; it stops where
\* an entry raises, leaving what was written so far
RECURSIVE FeedsLines(_, _)
FeedsLines(feeds, i) ==
    IF i > Len(feeds) THEN [ok |-> TRUE, lines |-> <<>>]
    ELSE LET pre == (IF i = 1 THEN <<Comment("  # GitHub repository feed")>> ELSE <<>>)
                    \o FeedLinesHead(feeds[i])
         IN  IF ~TagsIterable(feeds[i]) THEN [ok |-> FALSE, lines |-> pre]
             ELSE LET rest == FeedsLines(feeds, i + 1)
                  IN  [ok |-> rest.ok,
                       lines |-> pre \o FeedLinesTail(feeds[i])
                                 \o (IF i < Len(feeds) THEN <<Blank>> ELSE <<>>)
                                 \o rest.lines]

\* lines 207-210
HeaderOut(header) == IF header # <<>> THEN header \o <<Blank>> ELSE <<>>

\* lines 245-248
FooterOut(footer) == IF footer # <<>> THEN <<Blank, Blank, Blank>> \o footer ELSE <<>>

\* FeedManager.save_config: what the file holds afterwards, and whether the
\* call returned (ok) or raised part-way with the file already truncated
SaveConfig(cfg, header, footer) ==
    LET top == HeaderOut(header)
               \o <<VersionLine(IF cfg.version = Missing THEN <<"1">> ELSE PyStr(cfg.version)),
                    Blank, FeedsLine>>
    IN  IF cfg.feedsKind = "none" THEN [ok |-> FALSE, lines |-> top]
        ELSE LET body == FeedsLines(cfg.feeds, 1)
             IN  IF ~body.ok THEN [ok |-> FALSE, lines |-> top \o body.lines]
                 ELSE [ok |-> TRUE, lines |-> top \o body.lines \o FooterOut(footer)]

\* faulty variant: nothing is ever found
IsFeedExistsNever(cfg, repo_url) == FALSE

\* FeedManager.is_feed_exists (for a config whose feeds are a list or absent)
IsFeedExists(cfg, repo_url) ==
    \E i \in 1..Len(cfg.feeds) : Get(cfg.feeds[i], "url", None) = repo_url

\* iterating self.config.get("feeds", []) raises TypeError when it is None
FeedsIterable(cfg) == cfg.feedsKind # "none"

\* the dict built at lines 261-271
NewFeed(repo, added_by) ==
    [url |-> repo.url,
     title |-> PyOr(repo.description, repo.full_name \o <<" recipes">>),
     feed_type |-> <<"github">>,
     branch |-> repo.default_branch,
     enabled |-> PyTrue,
     tags |-> <<"cookbook", "github">>,
     notes |-> <<"Found via GitHub search (stars ", ToString(repo.stars), ")">>,
     added_by |-> added_by,
     added_at |-> <<"today">>]

\* faulty variant: the new entry is put first
AppendFeedFront(feeds, new_feed) == <<new_feed>> \o feeds

\* self.config["feeds"].append(new_feed)
AppendFeed(feeds, new_feed) == Append(feeds, new_feed)

\* FeedManager.add_feed: the return value and the config afterwards
AddFeed(cfg, repo, added_by) ==
    IF IsFeedExists(cfg, repo.url) THEN [ret |-> FALSE, config |-> cfg]
    ELSE [ret |-> TRUE,
          config |-> [cfg EXCEPT !.feedsKind = "list",
                                 !.feeds = AppendFeed(cfg.feeds, NewFeed(repo, added_by))]]

----------------------------------------------------------------------------
(* The configuration files the runs start from *)

BotEntryLines ==
    <<Comment("  # GitHub repository feed"),
      FirstField("url", TRUE, <<"u1">>), Field("title", TRUE, <<"d1">>),
      Field("feed_type", FALSE, <<"github">>), Field("branch", TRUE, <<"main">>),
      Field("enabled", FALSE, <<"true">>), Field("tags", FALSE, <<>>),
      TagLine("cookbook"), TagLine("github"),
      Field("notes", TRUE, <<"n1">>), Field("added_by", TRUE, <<"@bot">>),
      Field("added_at", TRUE, <<"2024-01-01">>)>>

\* written by hand: no notes, no added_by, no added_at, no tags, one more key
HandEntryLines ==
    <<FirstField("url", TRUE, <<"u2">>), Field("title", TRUE, <<"t2">>),
      Field("feed_type", FALSE, <<"github">>), Field("active", FALSE, <<"true">>)>>

\* written by hand: a title holding a backslash followed by n, escaped as YAML asks
BackslashEntryLines ==
    <<FirstField("url", TRUE, <<"u3">>),
      Field("title", TRUE, <<"x", BSL, BSL, "n">>),
      Field("feed_type", FALSE, <<"github">>), Field("enabled", FALSE, <<"false">>),
      Field("tags", FALSE, <<>>), TagLine("cookbook"),
      Field("notes", TRUE, <<>>), Field("added_by", TRUE, <<"me">>),
      Field("added_at", TRUE, <<"2024-01-01">>)>>

\* two entries under one url
DuplicateUrlLines ==
    <<FirstField("url", TRUE, <<"u2">>), Field("title", TRUE, <<"t2">>),
      Field("feed_type", FALSE, <<"github">>), Field("enabled", FALSE, <<"true">>),
      Field("tags", FALSE, <<>>), TagLine("cookbook"),
      Field("notes", TRUE, <<>>), Field("added_by", TRUE, <<"me">>),
      Field("added_at", TRUE, <<"2024-01-01">>), Blank,
      FirstField("url", TRUE, <<"u2">>), Field("title", TRUE, <<"t3">>),
      Field("feed_type", FALSE, <<"github">>), Field("enabled", FALSE, <<"true">>),
      Field("tags", FALSE, <<>>), TagLine("cookbook"),
      Field("notes", TRUE, <<>>), Field("added_by", TRUE, <<"me">>),
      Field("added_at", TRUE, <<"2024-01-01">>)>>

HeaderOnly == <<Comment("# feeds")>>
HeaderAndBlank == <<Comment("# feeds"), Blank>>
FooterWithComment == <<Blank, ValComment, ValidationLine, Other("  max_size: 1")>>
FooterTrailingSpace == <<ValidationLine, WithWs(Other("  max_size: 1"))>>

\* the text before `version:` and the text after the feeds
Surroundings == { <<<<>>, <<>>>>,
                  <<HeaderOnly, FooterWithComment>>,
                  <<HeaderAndBlank, FooterTrailingSpace>> }

FeedBlocks == { <<>>,
                <<FeedsLine>> \o BotEntryLines,
                <<FeedsLine>> \o BotEntryLines \o <<Blank>> \o HandEntryLines,
                <<FeedsLine>> \o BackslashEntryLines,
                <<FeedsLine>> \o DuplicateUrlLines }

ConfigFiles == { hf[1] \o <<VersionLine(<<"1">>)>> \o b \o hf[2] :
                    hf \in Surroundings, b \in FeedBlocks }

\* the files main() is run on
MainConfigFiles ==
    { HeaderOnly \o <<VersionLine(<<"1">>), FeedsLine>> \o BotEntryLines \o FooterWithComment,
      <<VersionLine(<<"1">>), FeedsLine>> \o BotEntryLines \o <<Blank>> \o HandEntryLines,
      HeaderAndBlank \o <<VersionLine(<<"1">>)>> }

\* the records add_feed is handed when the FeedManager is driven directly
StoreRecords ==
    { RepoRecord(RepoR1), RepoRecord(RepoR3),
      [url |-> <<"u4">>, full_name |-> <<"r4">>, description |-> <<"say ", QUOTE, "hi", QUOTE>>,
       default_branch |-> <<"main">>, stars |-> 1, language |-> <<>>],
      [url |-> <<"u5">>, full_name |-> <<"r5">>, description |-> <<"x", BSL>>,
       default_branch |-> <<"main">>, stars |-> 0, language |-> <<>>] }

----------------------------------------------------------------------------
(* FeedManager(config_path): lines 156-160 *)

NoAdd == [called |-> FALSE, url |-> <<>>, ret |-> "none", before |-> <<>>,
          after |-> <<>>, existsAfter |-> FALSE]

\* how the feeds loaded now compare with the document the previous
\* FeedManager saved: asked only when that save was its last change
RoundTrip(loaded) ==
    IF ~snap.saved THEN "none"
    ELSE IF ~loaded.ok THEN "unparseable"
    ELSE IF loaded.config.feedsKind = "none" THEN
            (IF snap.feeds \o snap.added = <<>> THEN "same" ELSE "differs")
    ELSE IF Range(loaded.config.feeds) = Range(snap.feeds) \cup Range(snap.added)
         THEN "same" ELSE "differs"

Construct ==
    LET loaded == LoadConfig(file)
    IN  /\ fmState' = IF loaded.ok THEN "ready" ELSE "parse_error"
        /\ config' = loaded.config
        /\ header_lines' = ExtractHeader(file)
        /\ footer_lines' = ExtractFooter(file)
        /\ lastAdd' = NoAdd
        /\ snap' = [file |-> file, feeds |-> loaded.config.feeds, added |-> <<>>,
                    calls |-> <<>>, saved |-> FALSE, saveRaised |-> FALSE,
                    rt |-> RoundTrip(loaded), loads |-> snap.loads + 1]
        /\ UNCHANGED <<file, writes>>

\* one add_feed call on the constructed FeedManager
DoAdd(repo, added_by) ==
    IF ~FeedsIterable(config)
    THEN \* is_feed_exists raises TypeError; nothing changes
         /\ lastAdd' = [called |-> TRUE, url |-> repo.url, ret |-> "raised",
                        before |-> config.feeds, after |-> config.feeds,
                        existsAfter |-> FALSE]
         /\ snap' = [snap EXCEPT !.calls = Append(@, [url |-> repo.url, ret |-> "raised"])]
         /\ UNCHANGED config
    ELSE LET r == AddFeed(config, repo, added_by)
         IN  /\ config' = r.config
             /\ lastAdd' = [called |-> TRUE, url |-> repo.url,
                            ret |-> IF r.ret THEN "true" ELSE "false",
                            before |-> config.feeds, after |-> r.config.feeds,
                            existsAfter |-> IsFeedExists(r.config, repo.url)]
             /\ snap' = [snap EXCEPT
                           !.calls = Append(@, [url |-> repo.url,
                                                ret |-> IF r.ret THEN "true" ELSE "false"]),
                           !.added = IF r.ret THEN Append(@, NewFeed(repo, added_by)) ELSE @,
                           !.saved = IF r.ret THEN FALSE ELSE @]

\* one save_config call
DoSave ==
    LET out == SaveConfig(config, header_lines, footer_lines)
    IN  /\ file' = out.lines
        /\ writes' = writes + 1
        /\ snap' = [snap EXCEPT !.saved = out.ok, !.saveRaised = ~out.ok]

----------------------------------------------------------------------------
(* The classes driven directly *)

StoreLoad ==
    /\ pc = "api"
    /\ fmState = "none" \/ (fmState = "ready" /\ snap.saved)
    /\ Construct
    /\ UNCHANGED <<mainVars, searchVars>>

StoreAdd ==
    /\ pc = "api"
    /\ fmState = "ready"
    /\ Len(snap.calls) < MaxAdds
    /\ \E repo \in StoreRecords : DoAdd(repo, <<"@bot">>)
    /\ UNCHANGED <<mainVars, searchVars, file, header_lines, footer_lines, fmState, writes>>

StoreSave ==
    /\ pc = "api"
    /\ fmState = "ready"
    /\ writes < MaxSaves
    /\ DoSave
    /\ UNCHANGED <<mainVars, searchVars, config, header_lines, footer_lines, fmState, lastAdd>>

SearchCall ==
    /\ pc = "api"
    /\ spc = "idle"
    /\ \E maxr \in 0..MaxRepos, maxp \in 0..MaxPages : SearchEnter(maxr, maxp)
    /\ UNCHANGED <<mainVars, storeVars>>

SearchPageFail == PageFail /\ UNCHANGED <<mainVars, storeVars>>
SearchPageEmpty == PageEmpty /\ UNCHANGED <<mainVars, storeVars>>
SearchPageItems == PageItems /\ UNCHANGED <<mainVars, storeVars>>

NoArgs == [token |-> FALSE, limit |-> 0, max_pages |-> 0, randomize |-> FALSE,
           dry_run |-> FALSE, added_by |-> <<"@bot">>]

InitCommon ==
    /\ exitCode = NoExit
    /\ terminal = "none"
    /\ candidates = <<>>
    /\ idx = 0
    /\ added_count = 0
    /\ addCalls = <<>>
    /\ existsCalls = 0
    /\ spc = "idle"
    /\ max_repos = 0
    /\ max_pages = 0
    /\ page = 0
    /\ repos = <<>>
    /\ requests = <<>>
    /\ seen = <<>>
    /\ reposAfter = <<>>
    /\ config = [version |-> Missing, feedsKind |-> "absent", feeds |-> <<>>]
    /\ header_lines = <<>>
    /\ footer_lines = <<>>
    /\ fmState = "none"
    /\ writes = 0
    /\ lastAdd = NoAdd
    /\ snap = [file |-> file, feeds |-> <<>>, added |-> <<>>, calls |-> <<>>,
               saved |-> FALSE, saveRaised |-> FALSE, rt |-> "none", loads |-> 0]

InitSearch ==
    /\ pc = "api"
    /\ args = NoArgs
    /\ configExists = FALSE
    /\ file = <<>>
    /\ InitCommon

NextSearch == SearchCall \/ SearchPageFail \/ SearchPageEmpty \/ SearchPageItems

SpecSearch == InitSearch /\ [][NextSearch]_vars

InitStore ==
    /\ pc = "api"
    /\ args = NoArgs
    /\ configExists = TRUE
    /\ file \in ConfigFiles
    /\ InitCommon

NextStore == StoreLoad \/ StoreAdd \/ StoreSave

SpecStore == InitStore /\ [][NextStore]_vars

----------------------------------------------------------------------------
(* main() *)

\* sys.exit(code), or falling off the end of main (code 0)
Exit(code, how) ==
    /\ pc' = "done"
    /\ exitCode' = code
    /\ terminal' = how

\* lines 322-327
MainCheckToken ==
    /\ pc = "start"
    /\ IF ~args.token THEN Exit(1, "usage_error")
       ELSE pc' = "locate" /\ UNCHANGED <<exitCode, terminal>>
    /\ UNCHANGED <<args, configExists, candidates, idx, added_count, addCalls,
                   existsCalls, searchVars, storeVars>>

\* lines 330-333
MainLocateConfig ==
    /\ pc = "locate"
    /\ IF ~configExists THEN Exit(1, "usage_error")
       ELSE pc' = "init" /\ UNCHANGED <<exitCode, terminal>>
    /\ UNCHANGED <<args, configExists, candidates, idx, added_count, addCalls,
                   existsCalls, searchVars, storeVars>>

\* lines 339-340; an exception of the constructor ends the process
MainInitComponents ==
    /\ pc = "init"
    /\ Construct
    /\ IF fmState' = "ready" THEN pc' = "search" /\ UNCHANGED <<exitCode, terminal>>
       ELSE Exit(1, "uncaught_exception")
    /\ UNCHANGED <<args, configExists, candidates, idx, added_count, addCalls,
                   existsCalls, searchVars>>

\* lines 343-349: the call
MainSearch ==
    /\ pc = "search"
    /\ spc = "idle"
    /\ SearchEnter(args.limit * FetchFactor, args.max_pages)
    /\ pc' = "searching"
    /\ UNCHANGED <<args, configExists, exitCode, terminal, candidates, idx, added_count,
                   addCalls, existsCalls, storeVars>>

MainPageFail == pc = "searching" /\ PageFail /\ UNCHANGED <<mainVars, storeVars>>
MainPageEmpty == pc = "searching" /\ PageEmpty /\ UNCHANGED <<mainVars, storeVars>>
MainPageItems == pc = "searching" /\ PageItems /\ UNCHANGED <<mainVars, storeVars>>

\* `return list(repos.values())`, then lines 354-356
MainSearchReturned ==
    /\ pc = "searching"
    /\ spc = "returned"
    /\ candidates' = repos
    /\ IF repos = <<>> THEN Exit(0, "no_repos")
       ELSE pc' = "select" /\ UNCHANGED <<exitCode, terminal>>
    /\ UNCHANGED <<args, configExists, idx, added_count, addCalls, existsCalls,
                   searchVars, storeVars>>

\* list.sort(key=stars, reverse=True): stable, equal keys keep their order
RECURSIVE InsertByStars(_, _)
InsertByStars(sorted, r) ==
    IF sorted = <<>> THEN <<r>>
    ELSE IF Head(sorted).stars >= r.stars
         THEN <<Head(sorted)>> \o InsertByStars(Tail(sorted), r)
         ELSE <<r>> \o sorted

RECURSIVE SortFrom(_, _)
SortFrom(list, acc) ==
    IF list = <<>> THEN acc ELSE SortFrom(Tail(list), InsertByStars(acc, Head(list)))

\* faulty variant: the list left in search order
SortByStarsNone(list) == list

\* repos.sort(key=lambda r: r["stars"], reverse=True)
SortByStars(list) == SortFrom(list, <<>>)

\* random.shuffle: any order of the same elements
Shuffles(list) ==
    LET n == Len(list)
        perms == {f \in [1..n -> 1..n] : \A i, j \in 1..n : i # j => f[i] # f[j]}
    IN  {[i \in 1..n |-> list[f[i]]] : f \in perms}

\* repos[:args.limit]
Slice(list, limit) == Take(list, limit)

\* lines 359-362
MainSelectRandom ==
    /\ pc = "select"
    /\ args.randomize
    /\ \E shuffled \in Shuffles(candidates) : candidates' = Slice(shuffled, args.limit)
    /\ pc' = "process"
    /\ idx' = 1
    /\ UNCHANGED <<args, configExists, exitCode, terminal, added_count, addCalls,
                   existsCalls, searchVars, storeVars>>

\* lines 365-368
MainSelectSorted ==
    /\ pc = "select"
    /\ ~args.randomize
    /\ candidates' = Slice(SortByStars(candidates), args.limit)
    /\ pc' = "process"
    /\ idx' = 1
    /\ UNCHANGED <<args, configExists, exitCode, terminal, added_count, addCalls,
                   existsCalls, searchVars, storeVars>>

\* lines 376-381: one iteration of the loop in dry-run mode
MainDryRun ==
    /\ pc = "process"
    /\ idx <= Len(candidates)
    /\ args.dry_run
    /\ IF ~FeedsIterable(config)
       THEN Exit(1, "uncaught_exception") /\ UNCHANGED <<idx, added_count, existsCalls>>
       ELSE /\ existsCalls' = existsCalls + 1
            /\ added_count' = IF ~IsFeedExists(config, candidates[idx].url)
                              THEN added_count + 1 ELSE added_count
            /\ idx' = idx + 1
            /\ UNCHANGED <<pc, exitCode, terminal>>
    /\ UNCHANGED <<args, configExists, candidates, addCalls, searchVars, storeVars>>

\* lines 383-384: one iteration of the loop in normal mode
MainAdd ==
    /\ pc = "process"
    /\ idx <= Len(candidates)
    /\ ~args.dry_run
    /\ DoAdd(candidates[idx], args.added_by)
    /\ addCalls' = Append(addCalls, [repo |-> candidates[idx], ret |-> lastAdd'.ret])
    /\ IF lastAdd'.ret = "raised"
       THEN Exit(1, "uncaught_exception") /\ UNCHANGED <<idx, added_count>>
       ELSE /\ added_count' = IF lastAdd'.ret = "true" THEN added_count + 1 ELSE added_count
            /\ idx' = idx + 1
            /\ UNCHANGED <<pc, exitCode, terminal>>
    /\ UNCHANGED <<args, configExists, candidates, existsCalls, searchVars,
                   file, header_lines, footer_lines, fmState, writes>>

\* faulty variant: saved whenever the run is not a dry run
ShouldSaveAlways(dry_run, added) == ~dry_run

\* `if not args.dry_run and added_count > 0`
ShouldSave(dry_run, added) == ~dry_run /\ added > 0

\* lines 387-396, after the loop
MainPersist ==
    /\ pc = "process"
    /\ idx > Len(candidates)
    /\ IF ShouldSave(args.dry_run, added_count)
       THEN /\ DoSave
            /\ IF snap'.saved THEN Exit(0, "completed") ELSE Exit(1, "uncaught_exception")
       ELSE Exit(0, "completed") /\ UNCHANGED <<file, writes, snap>>
    /\ UNCHANGED <<args, configExists, candidates, idx, added_count, addCalls,
                   existsCalls, searchVars, config, header_lines, footer_lines,
                   fmState, lastAdd>>

Init ==
    /\ pc = "start"
    /\ args \in [token : BOOLEAN, limit : 0..MaxLimit, max_pages : 0..MaxPages,
                 randomize : BOOLEAN, dry_run : BOOLEAN, added_by : {<<"@bot">>}]
    /\ configExists \in BOOLEAN
    /\ file \in IF configExists THEN MainConfigFiles ELSE {<<>>}
    /\ InitCommon

Next ==
    \/ MainCheckToken
    \/ MainLocateConfig
    \/ MainInitComponents
    \/ MainSearch
    \/ MainPageFail
    \/ MainPageEmpty
    \/ MainPageItems
    \/ MainSearchReturned
    \/ MainSelectRandom
    \/ MainSelectSorted
    \/ MainDryRun
    \/ MainAdd
    \/ MainPersist

Spec == Init /\ [][Next]_vars

----------------------------------------------------------------------------
(* Claims about the Searcher (checked under SpecSearch) *)

ItemName(item) == Get(Get(item, "repository", EmptyDict), "full_name", None)

\* position in `seen` of the first item of the repository called full_name
FirstSeen(full_name) ==
    CHOOSE k \in 1..Len(seen) :
        /\ ItemName(seen[k]) = full_name
        /\ \A m \in 1..(k - 1) : ItemName(seen[m]) # full_name

\* C2: whatever pages were received, the dict holds no two records with one
\* full_name, each record holds the data of the first item seen for its
\* repository, and the records are in the order of those first items.
C2_DedupFirstSeen ==
    /\ \A i, j \in 1..Len(repos) : i # j => repos[i].full_name # repos[j].full_name
    /\ \A i \in 1..Len(repos) :
          /\ \E k \in 1..Len(seen) : ItemName(seen[k]) = repos[i].full_name
          /\ LET first == seen[FirstSeen(repos[i].full_name)].repository
             IN  /\ repos[i].url = Get(first, "html_url", None)
                 /\ repos[i].stars = Get(first, "stargazers_count", 0)
                 /\ repos[i].description = Get(first, "description", <<>>)
                 /\ repos[i].default_branch = Get(first, "default_branch", <<"main">>)
    /\ \A i, j \in 1..Len(repos) :
          i < j => FirstSeen(repos[i].full_name) < FirstSeen(repos[j].full_name)

\* a repository met again on a later page with other data, after another one
C2_Witness ==
    /\ spc = "returned"
    /\ Len(requests) >= 2
    /\ Len(repos) >= 2
    /\ \E k, m \in 1..Len(seen) :
          /\ k + 1 < m
          /\ ItemName(seen[k]) = <<"r1">>
          /\ ItemName(seen[m]) = <<"r1">>
          /\ seen[k].repository # seen[m].repository
          /\ repos[1].full_name = <<"r1">>

NoRequestFailed == \A i \in 1..Len(requests) : requests[i] # "fail"

\* page N+1 is to be requested after page N (N = 0: before any page)
Continues(N) ==
    /\ N < max_pages
    /\ N > 0 => requests[N] = "ok"
    /\ (IF N = 0 THEN 0 ELSE Len(reposAfter[N])) < max_repos

\* C3: with every request successful, page N+1 is requested exactly when
\* N < max_pages, page N had items and fewer than max_repos repositories were
\* held after it; so at most max_pages requests are made, none follows an
\* empty page or the page that reached max_repos, and at most max_repos
\* records are returned.
C3_StopsExactly ==
    (spc # "idle" /\ NoRequestFailed) =>
        /\ \A N \in 0..(Len(requests) - 1) : Continues(N)
        /\ spc = "returned" => ~Continues(Len(requests))
        /\ spc = "loop" => Continues(Len(requests))
        /\ Len(requests) <= max_pages
        /\ \A N \in 1..Len(requests) :
              (requests[N] = "empty" \/ Len(reposAfter[N]) >= max_repos)
                  => N = Len(requests)
        /\ Len(repos) <= max_repos

\* the search ends on reaching max_repos in the middle of a page, with pages to spare
C3_Witness ==
    /\ spc = "returned"
    /\ NoRequestFailed
    /\ max_repos > 0
    /\ Len(repos) = max_repos
    /\ Len(requests) >= 1
    /\ Len(requests) < max_pages
    /\ \E i \in 1..Len(seen) : ItemName(seen[i]) # None /\ ~HasRepo(repos, ItemName(seen[i]))

----------------------------------------------------------------------------
(* Claims about main() (checked under Spec) *)

\* C1: when the request for the first page fails, the run ends in the
\* search-error state with a non-zero exit status and the file unwritten.
C1_FirstPageFailureIsFatal ==
    (pc = "done" /\ requests # <<>> /\ requests[1] = "fail") =>
        /\ terminal = "search_error"
        /\ exitCode # 0
        /\ writes = 0

\* C4: when the request for a page k > 1 fails, it is the last request, the
\* search returns (it does not raise) exactly the dict as it stood after page
\* k-1, and main goes on with those records as after any other search: to the
\* selection when there are any, to the exit with status 0 when there are none.
C4_LaterFailureKeepsResults ==
    \A k \in 2..Len(requests) :
        requests[k] = "fail" =>
            /\ k = Len(requests)
            /\ spc = "returned"
            /\ repos = reposAfter[k - 1]
            /\ terminal \notin {"search_error", "uncaught_exception"}
            /\ exitCode \in {NoExit, 0}
            /\ pc = "select" => candidates = reposAfter[k - 1]
            /\ pc \in {"select", "process"} => reposAfter[k - 1] # <<>>
            /\ pc = "done" => (terminal = "no_repos" <=> reposAfter[k - 1] = <<>>)
            /\ \A i \in 1..Len(addCalls) : addCalls[i].repo \in Range(reposAfter[k - 1])

\* page 2 failed, and what page 1 gave was added and saved
C4_Witness ==
    /\ pc = "done"
    /\ terminal = "completed"
    /\ requests = <<"ok", "fail">>
    /\ Len(repos) = 2
    /\ \E i \in 1..Len(addCalls) : addCalls[i].ret = "true"
    /\ writes = 1

AnyAdded == \E i \in 1..Len(addCalls) : addCalls[i].ret = "true"

\* C7: a run writes the file at most once, and has written it at its end
\* exactly when it is no dry run and some add_feed returned True; a dry run
\* calls neither add_feed nor save_config and leaves document and file as
\* loaded; a run that found nothing, or only what is already there, leaves
\* the file as it was and exits with status 0.
C7_WritesOnceIffAdded ==
    /\ writes <= 1
    /\ writes = 1 => (~args.dry_run /\ AnyAdded)
    /\ pc = "done" => (writes = 1 <=> (~args.dry_run /\ AnyAdded))
    /\ args.dry_run =>
          /\ addCalls = <<>>
          /\ file = snap.file
          /\ fmState = "ready" => config.feeds = snap.feeds
    /\ (pc = "done" /\ (terminal = "no_repos" \/ (terminal = "completed" /\ ~AnyAdded))) =>
          /\ file = snap.file
          /\ writes = 0
          /\ exitCode = 0

\* a run in which one candidate was already there and another was added and saved
C7_Witness ==
    /\ pc = "done"
    /\ writes = 1
    /\ file # snap.file
    /\ \E i \in 1..Len(addCalls) : addCalls[i].ret = "false"
    /\ \E i \in 1..Len(addCalls) : addCalls[i].ret = "true"

DistinctStars(list) ==
    \A i, j \in 1..Len(list) : i # j => list[i].stars # list[j].stars

Selected == pc = "process" \/ (pc = "done" /\ terminal = "completed")

\* C10: the selection leaves min(limit, n) pairwise different candidates, all
\* among the n found; when not randomized and the star counts differ, they
\* are the min(limit, n) with most stars, most stars first; add_feed is called
\* on at most limit of them, in the selected order.
C10_Selection ==
    Selected =>
        /\ Len(candidates) = Min(args.limit, Len(repos))
        /\ \A i, j \in 1..Len(candidates) : i # j => candidates[i] # candidates[j]
        /\ Range(candidates) \subseteq Range(repos)
        /\ (~args.randomize /\ DistinctStars(repos)) =>
              /\ \A i, j \in 1..Len(candidates) :
                    i < j => candidates[i].stars > candidates[j].stars
              /\ \A r \in Range(repos) \ Range(candidates) :
                    \A i \in 1..Len(candidates) : r.stars < candidates[i].stars
        /\ Len(addCalls) <= args.limit
        /\ Len(addCalls) <= Len(candidates)
        /\ \A i \in 1..Len(addCalls) : addCalls[i].repo = candidates[i]

\* three repositories found in an order that is not the star order, two taken
C10_Witness ==
    /\ pc = "done"
    /\ terminal = "completed"
    /\ ~args.randomize
    /\ Len(repos) = 3
    /\ DistinctStars(repos)
    /\ repos[1].stars < repos[2].stars
    /\ args.limit = 2
    /\ Len(addCalls) = 2

----------------------------------------------------------------------------
(* Claims about the FeedManager (checked under SpecStore) *)

UrlsOf(feeds) == {Get(feeds[i], "url", None) : i \in 1..Len(feeds)}

PairwiseDistinctUrls(feeds) ==
    \A i, j \in 1..Len(feeds) :
        i # j => Get(feeds[i], "url", None) # Get(feeds[j], "url", None)

C6_UniqueUrlsAppendOnly ==
    (fmState = "ready" /\ config.feedsKind # "none" /\ PairwiseDistinctUrls(snap.feeds)) =>
        /\ PairwiseDistinctUrls(config.feeds)
        /\ Len(config.feeds) = Len(snap.feeds) + Len(snap.added)
        /\ SubSeq(config.feeds, 1, Len(snap.feeds)) = snap.feeds
        /\ SubSeq(config.feeds, Len(snap.feeds) + 1, Len(config.feeds)) = snap.added

\* r1 and r3 share a url: after both were offered to a document holding
\* another entry, one entry was appended
C6_Witness ==
    /\ fmState = "ready"
    /\ snap.feeds # <<>>
    /\ PairwiseDistinctUrls(snap.feeds)
    /\ Len(snap.calls) = 2
    /\ snap.calls[1] = [url |-> <<"u1">>, ret |-> "true"]
    /\ snap.calls[2] = [url |-> <<"u1">>, ret |-> "false"]
    /\ Len(config.feeds) = Len(snap.feeds) + 1
    /\ config.feeds[Len(config.feeds)].title = <<"r3", " recipes">>

\* C8: after save_config the leading (header) lines and the trailing
\* (footer) lines of the file are, line for line, those of the file the
\* FeedManager was loaded from.
C8_HeaderFooterPreserved ==
    snap.saved =>
        /\ HeaderRegion(file) = HeaderRegion(snap.file)
        /\ FooterRegion(file) = FooterRegion(snap.file)

\* C9: loading a file saved by a FeedManager gives, as a set, the entries that
\* FeedManager had loaded plus those it added.
C9_RoundTripEntries == snap.rt \in {"none", "same"}

====
